---- MODULE Spec2Model ----
(***************************************************************************)
(* PhyloGenius: the App screen machine (src/App.tsx), the exercise         *)
(* generation call (services/geminiService), the matrix exercise           *)
(* (src/components/MatrixExercise.tsx), the tree exercise                  *)
(* (components/TreeExercise) and the teacher zone                          *)
(* (src/components/TeacherZone.tsx).                                       *)
(*                                                                         *)
(* A React component's state exists while the component is mounted; an     *)
(* unmounted component's variables hold their useState initial values, and *)
(* mounting runs the component's first effect.                             *)
(*                                                                         *)
(* Conventions: JavaScript null and undefined are the strings null and     *)
(* undefined; a boolean | undefined cell is one of "true", "false",        *)
(* undefined; arrays are 1-based sequences, so index i of the code is      *)
(* position i + 1 here; a JavaScript string that the code takes apart (the *)
(* password) is a sequence of one-character strings.  Display-only fields  *)
(* (title, names, descriptions, emoji, URLs), the includeFossils prompt    *)
(* flag and the showInfo / showMatrix panel toggles are left out: no       *)
(* handler reads them to decide anything.                                  *)
(***************************************************************************)
EXTENDS Integers, Sequences, FiniteSets, TLC

VARIABLES
    apiKey,            \* process.env.API_KEY is set (fixed by the build)
    defaultData,       \* App.tsx: the module's DEFAULT_DATA object
    state,             \* App: AppState
    exerciseData,      \* App: ExerciseData | null (NoExercise)
    topic,             \* App
    difficulty,        \* App
    loading,           \* App
    error,             \* App: string | null
    showTeacherZone,   \* App
    calls,             \* startExercise(true) invocations that have not returned
    userMatrix,        \* MatrixExercise
    showErrors,        \* MatrixExercise
    matrixSuccess,     \* MatrixExercise: success
    slots,             \* TreeExercise
    selectedItemId,    \* TreeExercise: {id, type} | null (NoSelection)
    treeSuccess,       \* TreeExercise: success
    mistakes,          \* TreeExercise
    isAuthenticated,   \* TeacherZone
    passwordInput,     \* TeacherZone
    loginError,        \* TeacherZone: error
    crashed            \* an error was thrown while rendering: the page is gone

vars == <<apiKey, defaultData, state, exerciseData, topic, difficulty,
          loading, error,
          showTeacherZone, calls, userMatrix, showErrors, matrixSuccess,
          slots, selectedItemId, treeSuccess, mistakes,
          isAuthenticated, passwordInput, loginError, crashed>>

appVars == <<state, exerciseData, topic, difficulty, loading, error,
             showTeacherZone, calls>>
matrixVars == <<userMatrix, showErrors, matrixSuccess>>
treeVars == <<slots, selectedItemId, treeSuccess, mistakes>>
teacherVars == <<isAuthenticated, passwordInput, loginError>>

null == "null"
undefined == "undefined"

\* JavaScript truthiness of a string | null | undefined value.
Truthy(v) == v # null /\ v # undefined /\ v # ""

(***************************************************************************)
(* Bounds of the model.                                                    *)
(***************************************************************************)
\* startExercise invocations the model lets be in flight at once (the code
\* has no such cap; the generate button's disabled={loading} keeps it at 1).
MaxCalls == 2
\* The tree's mistakes counter is not incremented past this value.
MaxMistakes == 1

(***************************************************************************)
(* Sequences.                                                              *)
(***************************************************************************)
\* Swap, were the second assignment of the destructuring lost.
SwapOverwrite(arr, i, j) == [arr EXCEPT ![i] = arr[j]]

\* [newArray[i], newArray[j]] = [newArray[j], newArray[i]]
Swap(arr, i, j) == [arr EXCEPT ![i] = arr[j], ![j] = arr[i]]

\* The results of the Fisher-Yates loop from index i (0-based) down to 1,
\* over every draw of j = floor(random * (i + 1)) in 0..i.
RECURSIVE ShuffleFrom(_, _)
ShuffleFrom(arr, i) ==
    IF i <= 0 THEN {arr}
    ELSE UNION {ShuffleFrom(Swap(arr, i + 1, j + 1), i - 1) : j \in 0..i}

shuffleArray(array) == ShuffleFrom(array, Len(array) - 1)

(***************************************************************************)
(* types.ts                                                                *)
(***************************************************************************)
AppState == {"setup", "loading", "info", "matrix", "tree", "success"}
Difficulties == {"Facile", "Moyen", "Difficile"}

Taxon(id, isFossil) == [id |-> id, isFossil |-> isFossil]
Character(id) == [id |-> id]
Step(characterId, branchingTaxonId) ==
    [characterId |-> characterId, branchingTaxonId |-> branchingTaxonId]
MatrixItem(taxonId, presentCharacterIds) ==
    [taxonId |-> taxonId, presentCharacterIds |-> presentCharacterIds]

TaxonIds(data) == {data.taxons[i].id : i \in DOMAIN data.taxons}
CharacterIds(data) == {data.characters[i].id : i \in DOMAIN data.characters}

\* The null of ExerciseData | null, and of {id, type} | null: records, so
\* that they compare with the values of the type.
NoExercise ==
    [difficulty |-> null, taxons |-> <<>>, characters |-> <<>>,
     correctMatrix |-> [t \in {} |-> {}], evolutionOrder |-> <<>>]
NoSelection == [id |-> null, type |-> null]

\* DEFAULT_DATA, cut to its first two taxa and first two characters (the
\* entries of correctMatrix and evolutionOrder that name only those).
DEFAULT_DATA ==
    [difficulty |-> "Facile",
     taxons |-> <<Taxon("t1", FALSE), Taxon("t2", FALSE)>>,
     characters |-> <<Character("c1"), Character("c2")>>,
     correctMatrix |-> [t \in {"t1", "t2"} |->
                           IF t = "t1" THEN {"c1"} ELSE {"c1", "c2"}],
     evolutionOrder |-> <<Step("c1", "t1"), Step("c2", "t2")>>]

(***************************************************************************)
(* services/geminiService: generateExercise                                *)
(***************************************************************************)
\* correctMatrix built from matrixList by forEach: a later item for the same
\* taxonId replaces an earlier one.
RECURSIVE BuildCorrectMatrix(_)
BuildCorrectMatrix(matrixList) ==
    IF matrixList = <<>> THEN [t \in {} |-> {}]
    ELSE LET n == Len(matrixList)
             item == matrixList[n]
             rest == BuildCorrectMatrix(SubSeq(matrixList, 1, n - 1))
         IN  [t \in DOMAIN rest \cup {item.taxonId} |->
                 IF t = item.taxonId THEN item.presentCharacterIds ELSE rest[t]]

\* ParsedExercise, were the difficulty the one the response states.
ParsedExerciseResponseDifficulty(rawData, callDifficulty) ==
    [difficulty |-> rawData.difficulty,
     taxons |-> rawData.taxons,
     characters |-> rawData.characters,
     correctMatrix |-> BuildCorrectMatrix(rawData.matrixList),
     evolutionOrder |-> rawData.evolutionOrder]

\* The ExerciseData generateExercise returns for a parsed response rawData
\* and the difficulty it was called with.
ParsedExercise(rawData, callDifficulty) ==
    [difficulty |-> callDifficulty,
     taxons |-> rawData.taxons,
     characters |-> rawData.characters,
     correctMatrix |-> BuildCorrectMatrix(rawData.matrixList),
     evolutionOrder |-> rawData.evolutionOrder]

\* The text of an answer of the model, parsed (RawExerciseResponse).
RawResponse(d, taxons, characters, matrixList, evolutionOrder) ==
    [difficulty |-> d, taxons |-> taxons, characters |-> characters,
     matrixList |-> matrixList, evolutionOrder |-> evolutionOrder]

\* Answers the generation service gives in the App specification: two taxa
\* (one a fossil), one character, a root step without innovation; and the
\* same with an empty evolutionOrder.
AppResponses ==
    {RawResponse("Difficile",
                 <<Taxon("a", TRUE), Taxon("b", FALSE)>>,
                 <<Character("k")>>,
                 <<MatrixItem("a", {}), MatrixItem("b", {"k"})>>,
                 <<Step(null, "a"), Step("k", "b")>>),
     RawResponse("Difficile",
                 <<Taxon("a", TRUE), Taxon("b", FALSE)>>,
                 <<Character("k")>>,
                 <<MatrixItem("a", {}), MatrixItem("b", {"k"})>>,
                 <<>>)}

ErrorMessage ==
    "Erreur lors de la generation. Veuillez verifier votre cle API ou reessayer."

Topics == {"", "Les Primates"}

(***************************************************************************)
(* MatrixExercise: pure parts                                              *)
(***************************************************************************)
\* The matrix the first effect stores: every displayed cell undefined.
InitialMatrix(data) ==
    [t \in TaxonIds(data) |-> [c \in CharacterIds(data) |-> undefined]]

UnmountedMatrix == [t \in {} |-> [c \in {} |-> undefined]]

\* userMatrix[taxonId]?.[charId]
CellValue(matrix, taxonId, charId) ==
    IF taxonId \in DOMAIN matrix /\ charId \in DOMAIN matrix[taxonId]
    THEN matrix[taxonId][charId]
    ELSE undefined

\* WithCell, were the row not spread into the new row.
WithCellRowReplaced(prev, taxonId, charId, nextVal) ==
    (taxonId :> (charId :> nextVal)) @@ prev

\* { ...prev, [taxonId]: { ...prev[taxonId], [charId]: nextVal } }
WithCell(prev, taxonId, charId, nextVal) ==
    LET row == IF taxonId \in DOMAIN prev THEN prev[taxonId]
               ELSE [c \in {} |-> undefined]
    IN  (taxonId :> ((charId :> nextVal) @@ row)) @@ prev

\* NextCellValue, were the third click to go back to present.
NextCellValueTwoState(currentVal) ==
    IF currentVal = undefined THEN "true"
    ELSE IF currentVal = "true" THEN "false"
    ELSE "true"

\* The value toggleCell stores for a cell whose value is currentVal.
NextCellValue(currentVal) ==
    IF currentVal = undefined THEN "true"
    ELSE IF currentVal = "true" THEN "false"
    ELSE undefined

\* The updater toggleCell passes to setUserMatrix.
ToggledMatrix(prev, taxonId, charId) ==
    WithCell(prev, taxonId, charId,
             NextCellValue(CellValue(prev, taxonId, charId)))

\* correctMatrix[taxonId]?.includes(charId): undefined when the matrix has
\* no key for the taxon.
ShouldBePresent(correctMatrix, taxonId, charId) ==
    IF taxonId \in DOMAIN correctMatrix
    THEN IF charId \in correctMatrix[taxonId] THEN "true" ELSE "false"
    ELSE undefined

\* AllFilled, were allFilled set by any filled cell.
AllFilledSome(data, matrix) ==
    \E t \in TaxonIds(data) : \E c \in CharacterIds(data) :
        CellValue(matrix, t, c) # undefined

\* checkMatrix's two flags after its loops over taxons and characters.
AllFilled(data, matrix) ==
    \A t \in TaxonIds(data) : \A c \in CharacterIds(data) :
        CellValue(matrix, t, c) # undefined

\* The test that sets hasErrors for one cell: userVal !== undefined and
\* userVal !== shouldBePresent.
CellError(data, matrix, taxonId, charId) ==
    /\ CellValue(matrix, taxonId, charId) # undefined
    /\ CellValue(matrix, taxonId, charId)
          # ShouldBePresent(data.correctMatrix, taxonId, charId)

HasErrors(data, matrix) ==
    \E t \in TaxonIds(data) : \E c \in CharacterIds(data) :
        CellError(data, matrix, t, c)

(***************************************************************************)
(* The JavaScript number: IEEE 754 double precision, round to nearest,     *)
(* ties to even.  A number is a sign, an odd mantissa and an exponent: its *)
(* value is m * 2^e, with m a natural number of at most 53 bits.  TLC's    *)
(* integers have 32 bits, so that a natural number of any size is written  *)
(* as its digits in base 2^13, least significant first and the last one    *)
(* not 0 (zero is the empty sequence).  Infinities, NaN, the sign of zero  *)
(* and subnormal numbers are left out: the layout's values are between     *)
(* 2^-20 and 2^20 in magnitude, and it divides by small integers only.     *)
(***************************************************************************)
DigitBits == 13

Base == 2 ^ DigitBits

MantissaBits == 53

Digit(digits, i) == IF i \in DOMAIN digits THEN digits[i] ELSE 0

\* digits without the zeros at its high end
TrimDigits(digits) ==
    LET used == {i \in DOMAIN digits : digits[i] # 0}
    IN  IF used = {} THEN <<>>
        ELSE SubSeq(digits, 1, CHOOSE i \in used : \A j \in used : j <= i)

\* the digits of an integer below Base^3
NatDigits(n) == TrimDigits(<<n % Base, (n \div Base) % Base, n \div (Base * Base)>>)

\* the number of bits of a digit
DigitLen(digit) == CHOOSE k \in 0..DigitBits : digit < 2 ^ k /\ (k = 0 \/ digit >= 2 ^ (k - 1))

BitLen(digits) ==
    IF digits = <<>> THEN 0
    ELSE DigitBits * (Len(digits) - 1) + DigitLen(digits[Len(digits)])

\* bit i of the number, bit 0 being the least significant
TestBit(digits, i) ==
    (Digit(digits, (i \div DigitBits) + 1) \div (2 ^ (i % DigitBits))) % 2

\* the number times 2^n
ShiftLeft(digits, n) ==
    LET whole == n \div DigitBits
        part == n % DigitBits
    IN  TrimDigits([i \in 1..(Len(digits) + whole + 1) |->
                ((Digit(digits, i - whole) * (2 ^ part)) % Base)
                + (Digit(digits, i - whole - 1) \div (2 ^ (DigitBits - part)))])

\* the number divided by 2^n, rounded down
ShiftRight(digits, n) ==
    LET whole == n \div DigitBits
        part == n % DigitBits
    IN  IF whole >= Len(digits) THEN <<>>
        ELSE TrimDigits([i \in 1..(Len(digits) - whole) |->
                (Digit(digits, i + whole) \div (2 ^ part))
                + ((Digit(digits, i + whole + 1) % (2 ^ part))
                     * (2 ^ (DigitBits - part)))])

\* the number of zero bits at the low end of a number that is not 0
LowZeros(digits) ==
    CHOOSE n \in 0..(BitLen(digits) - 1) :
        /\ TestBit(digits, n) = 1
        /\ \A i \in 0..(n - 1) : TestBit(digits, i) = 0

RECURSIVE AddFrom(_, _, _, _)
AddFrom(a, b, i, carry) ==
    IF i > Len(a) /\ i > Len(b)
    THEN IF carry = 0 THEN <<>> ELSE <<carry>>
    ELSE LET sum == Digit(a, i) + Digit(b, i) + carry
         IN  <<sum % Base>> \o AddFrom(a, b, i + 1, sum \div Base)

AddDigits(a, b) == AddFrom(a, b, 1, 0)

\* a - b, for a >= b
RECURSIVE SubFrom(_, _, _, _)
SubFrom(a, b, i, borrow) ==
    IF i > Len(a) THEN <<>>
    ELSE LET diff == Digit(a, i) - Digit(b, i) - borrow
         IN  <<(diff + Base) % Base>>
                \o SubFrom(a, b, i + 1, IF diff < 0 THEN 1 ELSE 0)

SubDigits(a, b) == TrimDigits(SubFrom(a, b, 1, 0))

LessDigits(a, b) ==
    \E i \in 1..Len(b) :
        /\ Digit(a, i) < b[i]
        /\ \A j \in (i + 1)..(IF Len(a) > Len(b) THEN Len(a) ELSE Len(b)) :
              Digit(a, j) = Digit(b, j)

\* the sum of a[i] * b[k + 1 - i], the products that make digit k of a * b
RECURSIVE Column(_, _, _, _)
Column(a, b, k, i) ==
    IF i > Len(a) THEN 0
    ELSE Digit(a, i) * Digit(b, k + 1 - i) + Column(a, b, k, i + 1)

RECURSIVE MulFrom(_, _, _, _)
MulFrom(a, b, k, carry) ==
    IF k > Len(a) + Len(b) THEN <<>>
    ELSE LET sum == Column(a, b, k, 1) + carry
         IN  <<sum % Base>> \o MulFrom(a, b, k + 1, sum \div Base)

\* a * b, for a and b of at most 53 bits
MulDigits(a, b) == TrimDigits(MulFrom(a, b, 1, 0))

\* Long division of a by a divisor of one digit, from digit i of a down:
\* the quotient (with its high zeros) and the remainder, rem being what the
\* higher digits left.
RECURSIVE DivFrom(_, _, _, _)
DivFrom(a, divisor, i, rem) ==
    IF i = 0 THEN [quotient |-> <<>>, remainder |-> rem]
    ELSE LET part == rem * Base + a[i]
             rest == DivFrom(a, divisor, i - 1, part % divisor)
         IN  [quotient |-> Append(rest.quotient, part \div divisor),
              remainder |-> rest.remainder]

DivDigits(a, divisor) ==
    LET result == DivFrom(a, divisor, Len(a), 0)
    IN  [quotient |-> TrimDigits(result.quotient), remainder |-> result.remainder]

Zero == [neg |-> FALSE, m |-> <<>>, e |-> 0]

\* m * 2^e, for m # 0 with the given number of zero bits at its low end
Odd(neg, m, e, zeros) == [neg |-> neg, m |-> ShiftRight(m, zeros), e |-> e + zeros]

\* The number m * 2^e, for m of at most 53 bits, with m made odd.
Canonical(neg, m, e) ==
    IF m = <<>> THEN Zero ELSE Odd(neg, m, e, LowZeros(m))

\* m without its drop >= 1 lowest bits, rounded: up when the dropped bits
\* are more than half of the last bit kept, or exactly half of it and that
\* bit is 1.
RoundedAt(m, drop) ==
    IF /\ TestBit(m, drop - 1) = 1
       /\ \/ \E i \in 0..(drop - 2) : TestBit(m, i) = 1
          \/ TestBit(m, drop) = 1
    THEN AddDigits(ShiftRight(m, drop), <<1>>)
    ELSE ShiftRight(m, drop)

\* The double nearest to m * 2^e, for m of bits bits: the bits below the
\* 53 highest are dropped.
RoundBits(neg, m, e, bits) ==
    IF bits <= MantissaBits THEN Canonical(neg, m, e)
    ELSE Canonical(neg, RoundedAt(m, bits - MantissaBits),
                   e + (bits - MantissaBits))

\* The double nearest to m * 2^e, for m of any size.
RoundToDouble(neg, m, e) == RoundBits(neg, m, e, BitLen(m))

\* the double of an integer literal
Num(n) == Canonical(n < 0, NatDigits(IF n < 0 THEN -n ELSE n), 0)

Neg(x) == IF x.m = <<>> THEN x ELSE [x EXCEPT !.neg = ~x.neg]

\* the sign and the mantissa of xneg mx + yneg my, for mantissas of one
\* exponent
SignedSum(xneg, mx, yneg, my) ==
    IF xneg = yneg THEN [neg |-> xneg, m |-> AddDigits(mx, my)]
    ELSE IF mx = my THEN [neg |-> FALSE, m |-> <<>>]
    ELSE IF LessDigits(mx, my) THEN [neg |-> yneg, m |-> SubDigits(my, mx)]
    ELSE [neg |-> xneg, m |-> SubDigits(mx, my)]

\* the double nearest to sum.m * 2^e, with sum's sign
RoundSum(sum, e) == RoundToDouble(sum.neg, sum.m, e)

\* x + y for x and y not 0, e being the lower of their exponents
AddAt(x, y, e) ==
    RoundSum(SignedSum(x.neg, ShiftLeft(x.m, x.e - e),
                       y.neg, ShiftLeft(y.m, y.e - e)), e)

\* x + y
Add(x, y) ==
    IF x.m = <<>> THEN y
    ELSE IF y.m = <<>> THEN x
    ELSE AddAt(x, y, IF x.e < y.e THEN x.e ELSE y.e)

\* x - y
Sub(x, y) == Add(x, Neg(y))

\* x * y
Mul(x, y) ==
    IF x.m = <<>> \/ y.m = <<>> THEN Zero
    ELSE RoundToDouble(x.neg # y.neg, MulDigits(x.m, y.m), x.e + y.e)

\* The quotient with, below it, a bit that tells whether the division left
\* a remainder.
WithSticky(result) ==
    AddDigits(ShiftLeft(result.quotient, 1),
              IF result.remainder = 0 THEN <<>> ELSE <<1>>)

\* the bits put below x.m before a division: the quotient of x.m * 2^k by
\* a divisor of one digit has more than 55 bits
DivShift == MantissaBits + 2 + DigitBits

\* x / y, for y # 0 with a mantissa of one digit
Div(x, y) ==
    IF x.m = <<>> THEN Zero
    ELSE RoundToDouble(x.neg # y.neg,
                       WithSticky(DivDigits(ShiftLeft(x.m, DivShift), y.m[1])),
                       x.e - y.e - DivShift - 1)

(***************************************************************************)
(* TreeExercise: layout                                                    *)
(***************************************************************************)
TAXON_W == 112
TAXON_H == 112
ATTR_W == 120
ATTR_H == 40
START_X == 50
STEP_X == 200
TAXON_TOP_Y == 40
FOSSIL_OFFSET_Y == 100
TRUNK_BASE_Y == 550
TRUNK_TIP_Y == TAXON_TOP_Y + TAXON_H + 40

\* the literal 0.5
Half == Div(Num(1), Num(2))

\* taxonPositions[index] of the first effect
taxonPosition(index) ==
    [x |-> Add(Num(START_X), Mul(Num(index), Num(STEP_X))),
     y |-> Num(TAXON_TOP_Y)]

trunkBaseX == Add(Num(START_X), Num(100))

\* getTrunkPoint(t), for the trunkTipX of its closure
getTrunkPoint(tipX, t) ==
    [x |-> Add(trunkBaseX, Mul(Sub(tipX, trunkBaseX), t)),
     y |-> Add(Num(TRUNK_BASE_Y),
               Mul(Sub(Num(TRUNK_TIP_Y), Num(TRUNK_BASE_Y)), t))]

segmentSize(count) == Div(Num(1), Num(count))

\* trunkTipX of the first effect, for count >= 1 steps
trunkTipX(count) == Add(taxonPosition(count - 1).x, Div(Num(TAXON_W), Num(2)))

\* The x and y of an attribute slot whose middle is attrPos.
attrSlotAt(attrPos) ==
    [x |-> Sub(attrPos.x, Div(Num(ATTR_W), Num(2))),
     y |-> Sub(attrPos.y, Div(Num(ATTR_H), Num(2)))]

\* attrSlotPosition, were the slot put at the segment's node (nodeT) and
\* not at its middle.
attrSlotPositionAtNode(count, index) ==
    attrSlotAt(getTrunkPoint(trunkTipX(count),
                             Mul(Add(Num(index), Num(1)), segmentSize(count))))

\* The first effect's x and y of slot attr-index, for count >= 1 steps:
\* the slot's middle is getTrunkPoint(attrT).
attrSlotPosition(count, index) ==
    attrSlotAt(getTrunkPoint(trunkTipX(count),
                             Mul(Add(Num(index), Half), segmentSize(count))))

\* trunkTipX of getGeometry, for count >= 1 steps
geometryTrunkTipX(count) ==
    Add(Add(Num(START_X), Mul(Sub(Num(count), Num(1)), Num(STEP_X))),
        Div(Num(TAXON_W), Num(2)))

\* getGeometry's segments[index] but for its taxonTargetY, which depends on
\* success, for count >= 1 steps.
segmentLine(count, index) ==
    [startPos |-> getTrunkPoint(geometryTrunkTipX(count),
                                Mul(Num(index), segmentSize(count))),
     endPos |-> getTrunkPoint(geometryTrunkTipX(count),
                              Mul(Add(Num(index), Num(1)), segmentSize(count))),
     taxonTargetX |-> Add(Add(Num(START_X), Mul(Num(index), Num(STEP_X))),
                          Div(Num(TAXON_W), Num(2)))]

\* The middle of a segment, where the render draws the attribute's tick
\* mark (from 10 above it to 10 below it).
tickMark(segment) ==
    [x |-> Div(Add(segment.startPos.x, segment.endPos.x), Num(2)),
     y |-> Div(Add(segment.startPos.y, segment.endPos.y), Num(2))]

\* The longest evolutionOrder of the exercises.
MaxSteps == 4

\* The slots' positions depend on count and index only: they are computed
\* once for the exercises' lengths.
Layout ==
    [count \in 1..MaxSteps |->
        [index \in 0..(count - 1) |->
            [attr |-> attrSlotPosition(count, index),
             taxon |-> taxonPosition(index)]]]

\* and so do the segments of getGeometry and their tick marks
Geometry ==
    [count \in 1..MaxSteps |->
        [index \in 0..(count - 1) |->
            [segment |-> segmentLine(count, index),
             tick |-> tickMark(segmentLine(count, index))]]]

(***************************************************************************)
(* TreeExercise: pure parts                                                *)
(***************************************************************************)
Slot(kind, index, type, position, expectedId) ==
    [id |-> <<kind, index>>, type |-> type, x |-> position.x, y |-> position.y,
     expectedId |-> expectedId, filledWithId |-> null]

\* StepSlots, were the taxon slot given the step's characterId to expect.
StepSlotsCharacterExpected(step, index, count) ==
    (IF Truthy(step.characterId)
     THEN <<Slot("attr", index, "attribute", Layout[count][index].attr,
                 step.characterId)>>
     ELSE <<>>)
    \o
    (IF Truthy(step.branchingTaxonId)
     THEN <<Slot("taxon", index, "taxon", Layout[count][index].taxon,
                 step.characterId)>>
     ELSE <<>>)

\* The slots the forEach of the first effect pushes for one step, whose
\* positions are given.
StepSlotsAt(step, index, positions) ==
    (IF Truthy(step.characterId)
     THEN <<Slot("attr", index, "attribute", positions.attr,
                 step.characterId)>>
     ELSE <<>>)
    \o
    (IF Truthy(step.branchingTaxonId)
     THEN <<Slot("taxon", index, "taxon", positions.taxon,
                 step.branchingTaxonId)>>
     ELSE <<>>)

\* The slots the forEach of the first effect pushes for one step of count.
StepSlots(step, index, count) == StepSlotsAt(step, index, Layout[count][index])

RECURSIVE SlotsUpTo(_, _)
SlotsUpTo(evolutionOrder, n) ==
    IF n = 0 THEN <<>>
    ELSE SlotsUpTo(evolutionOrder, n - 1)
            \o StepSlots(evolutionOrder[n], n - 1, Len(evolutionOrder))

GenerateSlots(data) == SlotsUpTo(data.evolutionOrder, Len(data.evolutionOrder))

\* data.taxons.find(t => t.id === id)?.isFossil
isFossil(data, id) ==
    LET found == {i \in DOMAIN data.taxons : data.taxons[i].id = id}
    IN  /\ found # {}
        /\ data.taxons[CHOOSE i \in found : \A j \in found : i <= j].isFossil

\* fossilEffect, were every taxon slot moved down.
fossilEffectEveryTaxon(success, data, currentSlots) ==
    IF success
    THEN [i \in DOMAIN currentSlots |->
            IF currentSlots[i].type = "taxon"
            THEN [currentSlots[i] EXCEPT
                    !.y = Num(TAXON_TOP_Y + FOSSIL_OFFSET_Y)]
            ELSE currentSlots[i]]
    ELSE currentSlots

\* The second effect, run for the render's success on currentSlots: the
\* taxon slots that expect a fossil move down.
fossilEffect(success, data, currentSlots) ==
    IF success
    THEN [i \in DOMAIN currentSlots |->
            IF /\ currentSlots[i].type = "taxon"
               /\ Truthy(currentSlots[i].expectedId)
               /\ isFossil(data, currentSlots[i].expectedId)
            THEN [currentSlots[i] EXCEPT
                    !.y = Num(TAXON_TOP_Y + FOSSIL_OFFSET_Y)]
            ELSE currentSlots[i]]
    ELSE currentSlots

\* slots.map(s => s.filledWithId).filter(Boolean)
PlacedIds(currentSlots) ==
    {currentSlots[i].filledWithId : i \in DOMAIN currentSlots} \ {null, undefined, ""}

getAvailableItems(data, currentSlots, type) ==
    IF type = "taxon"
    THEN TaxonIds(data) \ PlacedIds(currentSlots)
    ELSE CharacterIds(data) \ PlacedIds(currentSlots)

\* checkCompletion's two tests.
SlotsAllFilled(currentSlots) ==
    \A i \in DOMAIN currentSlots : currentSlots[i].filledWithId # null

\* SlotsAllCorrect, were only the taxon slots compared.
SlotsAllCorrectTaxa(currentSlots) ==
    \A i \in DOMAIN currentSlots :
        currentSlots[i].type = "taxon" =>
            currentSlots[i].filledWithId = currentSlots[i].expectedId

SlotsAllCorrect(currentSlots) ==
    \A i \in DOMAIN currentSlots :
        currentSlots[i].filledWithId = currentSlots[i].expectedId

(***************************************************************************)
(* TeacherZone: pure parts                                                 *)
(***************************************************************************)
Whitespace == {" ", "\t"}

LowerChar(ch) ==
    CASE ch = "D" -> "d" [] ch = "A" -> "a" [] ch = "R" -> "r"
      [] ch = "W" -> "w" [] ch = "I" -> "i" [] ch = "N" -> "n"
      [] OTHER -> ch

toLowerCase(str) == [i \in DOMAIN str |-> LowerChar(str[i])]

RECURSIVE trimStart(_)
trimStart(str) ==
    IF str # <<>> /\ Head(str) \in Whitespace THEN trimStart(Tail(str)) ELSE str

RECURSIVE trimEnd(_)
trimEnd(str) ==
    IF str # <<>> /\ str[Len(str)] \in Whitespace
    THEN trimEnd(SubSeq(str, 1, Len(str) - 1)) ELSE str

trim(str) == trimEnd(trimStart(str))

Password == <<"d", "a", "r", "w", "i", "n">>

\* PasswordAccepted, were every whitespace character removed.
PasswordAcceptedLoose(input) ==
    SelectSeq(toLowerCase(input), LAMBDA ch : ch \notin Whitespace) = Password

\* passwordInput.toLowerCase().trim() === 'darwin'
PasswordAccepted(input) == trim(toLowerCase(input)) = Password

(***************************************************************************)
(* TeacherZone: the answer sheet                                           *)
(***************************************************************************)
\* Matrice Corrigee: {isPresent ? 'X' : ''}
SheetMark(data, taxonId, charId) ==
    IF ShouldBePresent(data.correctMatrix, taxonId, charId) = "true"
    THEN "X" ELSE ""

\* Arbre Corrige: the taxon box of segment index shows the taxon that
\* data.taxons.find gives for the step's branchingTaxonId (undefined:
\* the box is empty).
TeacherTaxonShown(data, index) ==
    LET step == data.evolutionOrder[index + 1]
    IN  IF step.branchingTaxonId \in TaxonIds(data)
        THEN step.branchingTaxonId ELSE undefined

\* Arbre Corrige: the attribute box of segment index is drawn when the
\* step's characterId is truthy and shows the character find gives.
TeacherCharacterShown(data, index) ==
    LET step == data.evolutionOrder[index + 1]
    IN  IF Truthy(step.characterId) /\ step.characterId \in CharacterIds(data)
        THEN step.characterId ELSE undefined

\* What is typed into the password field.
TypedPasswords ==
    {<<" ", "D", "a", "r", "W", "i", "n", " ">>,
     <<"d", "a", "r", " ", "w", "i", "n">>}

(***************************************************************************)
(* Mounting and unmounting of the screens' components (renderContent)      *)
(***************************************************************************)
\* MatrixExercise after App has rendered nextState with nextData.
RenderMatrix(nextState, nextData) ==
    IF nextState = "matrix" /\ nextData # NoExercise
    THEN IF state = "matrix" /\ exerciseData # NoExercise
         THEN \* stays mounted: the effect on [taxons, characters] runs again
              \* when the arrays are new ones
              IF nextData = exerciseData
              THEN UNCHANGED matrixVars
              ELSE /\ userMatrix' = InitialMatrix(nextData)
                   /\ UNCHANGED <<showErrors, matrixSuccess>>
         ELSE /\ userMatrix' = InitialMatrix(nextData)
              /\ showErrors' = FALSE
              /\ matrixSuccess' = FALSE
    ELSE /\ userMatrix' = UnmountedMatrix
         /\ showErrors' = FALSE
         /\ matrixSuccess' = FALSE

\* TreeExercise after App has rendered nextState with nextData.
RenderTree(nextState, nextData) ==
    IF nextState = "tree" /\ nextData # NoExercise
    THEN IF state = "tree" /\ exerciseData # NoExercise
         THEN \* stays mounted: the effect on [data] runs again for new data
              IF nextData = exerciseData
              THEN UNCHANGED treeVars
              ELSE \* the second effect runs too, for this render's success
                   /\ slots' = fossilEffect(treeSuccess, nextData,
                                            GenerateSlots(nextData))
                   /\ treeSuccess' = FALSE
                   /\ mistakes' = 0
                   /\ UNCHANGED selectedItemId
         ELSE /\ slots' = GenerateSlots(nextData)
              /\ selectedItemId' = NoSelection
              /\ treeSuccess' = FALSE
              /\ mistakes' = 0
    ELSE /\ slots' = <<>>
         /\ selectedItemId' = NoSelection
         /\ treeSuccess' = FALSE
         /\ mistakes' = 0

\* The render of TreeExercise reads segments[segments.length - 1].endPos
\* for its trunk line, and so does the RenderTree of the teacher's sheets:
\* it throws a TypeError when evolutionOrder, and with it segments, is empty.
TreeRenderThrows(data) == data.evolutionOrder = <<>>

\* An error thrown while rendering, which nothing catches: React unmounts
\* the whole page.
UnmountPage ==
    /\ crashed' = TRUE
    /\ userMatrix' = UnmountedMatrix
    /\ showErrors' = FALSE
    /\ matrixSuccess' = FALSE
    /\ slots' = <<>>
    /\ selectedItemId' = NoSelection
    /\ treeSuccess' = FALSE
    /\ mistakes' = 0

Render(nextState, nextData) ==
    IF nextState = "tree" /\ nextData # NoExercise /\ TreeRenderThrows(nextData)
    THEN UnmountPage
    ELSE /\ RenderMatrix(nextState, nextData)
         /\ RenderTree(nextState, nextData)
         /\ UNCHANGED crashed

DisplayedTaxonIds == TaxonIds(exerciseData)
DisplayedCharacterIds == CharacterIds(exerciseData)

\* The teacher zone overlay (fixed inset-0) is rendered over the page.
TeacherZoneShown == showTeacherZone /\ exerciseData # NoExercise /\ ~crashed

\* The page is rendered and the overlay does not cover it.
PageShown == ~crashed /\ ~(showTeacherZone /\ exerciseData # NoExercise)

(***************************************************************************)
(* App                                                                     *)
(***************************************************************************)
\* ButtonsDisabled, were the buttons never disabled.
ButtonsNeverDisabled == FALSE

\* disabled={loading} of the generate and demo buttons
ButtonsDisabled == loading

SetDifficulty(level) ==
    /\ state = "setup" /\ PageShown
    /\ difficulty' = level
    /\ UNCHANGED <<apiKey, defaultData, crashed, state, exerciseData, topic, loading,
                   error, showTeacherZone, calls, matrixVars, treeVars,
                   teacherVars>>

SetTopic(value) ==
    /\ state = "setup" /\ PageShown
    /\ topic' = value
    /\ UNCHANGED <<apiKey, defaultData, crashed, state, exerciseData, difficulty,
                   loading, error, showTeacherZone, calls, matrixVars,
                   treeVars, teacherVars>>

\* ArrayAfterShuffle, were newArray the array itself and not a copy.
ArrayAfterShuffleInPlace(array, newArray) == newArray

\* What array holds once shuffleArray(array) has returned newArray: the
\* loop swaps inside newArray, a copy ([...array]), so array is as it was.
ArrayAfterShuffle(array, newArray) == array

\* StartDemo, were the demo to set loading as the generation does.
StartDemoLoading ==
    /\ state = "setup" /\ PageShown
    /\ ~ButtonsDisabled
    /\ \E taxons \in shuffleArray(defaultData.taxons) :
       \E characters \in shuffleArray(defaultData.characters) :
          LET shuffledDefault ==
                  [defaultData EXCEPT !.taxons = taxons,
                                      !.characters = characters]
          IN  /\ exerciseData' = shuffledDefault
              /\ state' = "info"
              /\ Render("info", shuffledDefault)
    /\ loading' = TRUE
    /\ UNCHANGED <<apiKey, defaultData, topic, difficulty, error,
                   showTeacherZone, calls, teacherVars>>

\* startExercise(false)
StartDemo ==
    /\ state = "setup" /\ PageShown
    /\ ~ButtonsDisabled
    /\ \E taxons \in shuffleArray(defaultData.taxons) :
       \E characters \in shuffleArray(defaultData.characters) :
          LET shuffledDefault ==
                  [defaultData EXCEPT !.taxons = taxons,
                                      !.characters = characters]
          IN  /\ exerciseData' = shuffledDefault
              /\ state' = "info"
              /\ Render("info", shuffledDefault)
              /\ defaultData' =
                     [defaultData EXCEPT
                         !.taxons = ArrayAfterShuffle(@, taxons),
                         !.characters = ArrayAfterShuffle(@, characters)]
    /\ UNCHANGED <<apiKey, topic, difficulty, loading, error,
                   showTeacherZone, calls, teacherVars>>

\* One invocation of generateExercise: the state of its promise, its
\* arguments, what became of its request ("none": no request was sent,
\* "sent": awaiting the answer, "failed": generateContent rejected, "empty":
\* the response has no text, "unparsable": JSON.parse threw, "text": the
\* text was parsed) and the value it returned.
Call(status, callTopic, callDifficulty, response, data) ==
    [status |-> status, topic |-> callTopic,
     difficulty |-> callDifficulty, response |-> response, data |-> data]

\* GenerateCall, were the API key not tested.
GenerateCallNoKeyCheck(callTopic, callDifficulty) ==
    Call("pending", callTopic, callDifficulty, "sent", NoExercise)

\* generateExercise up to its first await: without an API key it throws
\* before any request is made.
GenerateCall(callTopic, callDifficulty) ==
    IF apiKey
    THEN Call("pending", callTopic, callDifficulty, "sent", NoExercise)
    ELSE Call("rejected", callTopic, callDifficulty, "none", NoExercise)

\* startExercise(true) up to its await
StartGenerate ==
    /\ state = "setup" /\ PageShown
    /\ ~ButtonsDisabled
    /\ Len(calls) < MaxCalls
    /\ loading' = TRUE
    /\ error' = null
    /\ calls' = Append(calls, GenerateCall(topic, difficulty))
    /\ UNCHANGED <<apiKey, defaultData, crashed, state, exerciseData, topic, difficulty,
                   showTeacherZone, matrixVars, treeVars, teacherVars>>

\* generateExercise after the await of generateContent: the request fails or
\* the response has no text or does not parse (the call throws), or the
\* response parses (the call returns).
GenerateSettles(i) ==
    /\ i \in DOMAIN calls
    /\ calls[i].status = "pending"
    /\ \/ \E thrown \in {"failed", "empty", "unparsable"} :
             calls' = [calls EXCEPT ![i].status = "rejected",
                                    ![i].response = thrown]
       \/ \E rawData \in AppResponses :
             calls' = [calls EXCEPT
                          ![i].status = "fulfilled",
                          ![i].response = "text",
                          ![i].data = ParsedExercise(rawData, calls[i].difficulty)]
    /\ UNCHANGED <<apiKey, defaultData, crashed, state, exerciseData, topic,
                   difficulty, loading, error, showTeacherZone, matrixVars,
                   treeVars, teacherVars>>

Without(seq, i) == SubSeq(seq, 1, i - 1) \o SubSeq(seq, i + 1, Len(seq))

\* StartResumes, were setLoading(false) at the end of the try body and not
\* in a finally.
StartResumesNoFinally(i) ==
    /\ ~crashed
    /\ i \in DOMAIN calls
    /\ calls[i].status \in {"fulfilled", "rejected"}
    /\ IF calls[i].status = "fulfilled"
       THEN \E taxons \in shuffleArray(calls[i].data.taxons) :
            \E characters \in shuffleArray(calls[i].data.characters) :
               LET shuffledData ==
                       [calls[i].data EXCEPT !.taxons = taxons,
                                             !.characters = characters]
               IN  /\ exerciseData' = shuffledData
                   /\ state' = "info"
                   /\ Render("info", shuffledData)
                   /\ loading' = FALSE
                   /\ UNCHANGED error
       ELSE /\ error' = ErrorMessage
            /\ UNCHANGED <<state, exerciseData, loading, matrixVars, treeVars,
                           crashed>>
    /\ calls' = Without(calls, i)
    /\ UNCHANGED <<apiKey, defaultData, topic, difficulty, showTeacherZone,
                   teacherVars>>

\* startExercise(true) after its await: the try body, or the catch, and the
\* finally.
StartResumes(i) ==
    /\ ~crashed
    /\ i \in DOMAIN calls
    /\ calls[i].status \in {"fulfilled", "rejected"}
    /\ IF calls[i].status = "fulfilled"
       THEN \E taxons \in shuffleArray(calls[i].data.taxons) :
            \E characters \in shuffleArray(calls[i].data.characters) :
               LET shuffledData ==
                       [calls[i].data EXCEPT !.taxons = taxons,
                                             !.characters = characters]
               IN  /\ exerciseData' = shuffledData
                   /\ state' = "info"
                   /\ Render("info", shuffledData)
                   /\ UNCHANGED error
       ELSE /\ error' = ErrorMessage
            /\ UNCHANGED <<state, exerciseData, matrixVars, treeVars, crashed>>
    /\ loading' = FALSE
    /\ calls' = Without(calls, i)
    /\ UNCHANGED <<apiKey, defaultData, topic, difficulty, showTeacherZone,
                   teacherVars>>

\* Continue, were onContinue wired to the tree screen.
ContinueToTree ==
    /\ state = "info" /\ exerciseData # NoExercise /\ PageShown
    /\ state' = "tree"
    /\ Render("tree", exerciseData)
    /\ UNCHANGED <<apiKey, defaultData, exerciseData, topic, difficulty,
                   loading, error, showTeacherZone, calls, teacherVars>>

\* InfoCards onContinue
Continue ==
    /\ state = "info" /\ exerciseData # NoExercise /\ PageShown
    /\ state' = "matrix"
    /\ Render("matrix", exerciseData)
    /\ UNCHANGED <<apiKey, defaultData, exerciseData, topic, difficulty,
                   loading, error, showTeacherZone, calls, teacherVars>>

\* MatrixExercise onComplete: the button is rendered when success is true
OnComplete ==
    /\ state = "matrix" /\ exerciseData # NoExercise /\ PageShown
    /\ matrixSuccess
    /\ state' = "tree"
    /\ Render("tree", exerciseData)
    /\ UNCHANGED <<apiKey, defaultData, exerciseData, topic, difficulty,
                   loading, error, showTeacherZone, calls, teacherVars>>

\* TreeExercise onRestart: the button is rendered when success is true
OnRestart ==
    /\ state = "tree" /\ exerciseData # NoExercise /\ PageShown
    /\ treeSuccess
    /\ topic' = ""
    /\ state' = "setup"
    /\ Render("setup", exerciseData)
    /\ UNCHANGED <<apiKey, defaultData, exerciseData, difficulty, loading,
                   error, showTeacherZone, calls, teacherVars>>

\* Click on the header logo
HeaderClick ==
    /\ PageShown
    /\ state' = "setup"
    /\ Render("setup", exerciseData)
    /\ UNCHANGED <<apiKey, defaultData, exerciseData, topic, difficulty,
                   loading, error, showTeacherZone, calls, teacherVars>>

\* OpenTeacherZone, were the button rendered on the setup screen too.
OpenTeacherZoneOnSetup ==
    /\ exerciseData # NoExercise
    /\ PageShown
    /\ showTeacherZone' = TRUE
    /\ isAuthenticated' = FALSE
    /\ passwordInput' = <<>>
    /\ loginError' = FALSE
    /\ UNCHANGED <<apiKey, defaultData, crashed, state, exerciseData, topic,
                   difficulty, loading, error, calls, matrixVars, treeVars>>

\* Click on "Espace Prof"
OpenTeacherZone ==
    /\ exerciseData # NoExercise /\ state # "setup"
    /\ PageShown
    /\ showTeacherZone' = TRUE
    /\ isAuthenticated' = FALSE
    /\ passwordInput' = <<>>
    /\ loginError' = FALSE
    /\ UNCHANGED <<apiKey, defaultData, crashed, state, exerciseData, topic,
                   difficulty, loading, error, calls, matrixVars, treeVars>>

(***************************************************************************)
(* TeacherZone                                                             *)
(***************************************************************************)
\* onChange of the password field
SetPasswordInput(value) ==
    /\ TeacherZoneShown /\ ~isAuthenticated
    /\ passwordInput' = value
    /\ UNCHANGED <<appVars, apiKey, defaultData, crashed, matrixVars, treeVars,
                   isAuthenticated, loginError>>

handleLogin ==
    /\ TeacherZoneShown /\ ~isAuthenticated
    /\ IF PasswordAccepted(passwordInput)
       THEN IF TreeRenderThrows(exerciseData)
            THEN \* the sheets are rendered with their two trees
                 /\ UnmountPage
                 /\ isAuthenticated' = FALSE
                 /\ passwordInput' = <<>>
                 /\ loginError' = FALSE
            ELSE /\ isAuthenticated' = TRUE
                 /\ loginError' = FALSE
                 /\ UNCHANGED <<passwordInput, matrixVars, treeVars, crashed>>
       ELSE /\ loginError' = TRUE
            /\ passwordInput' = <<>>
            /\ UNCHANGED <<isAuthenticated, matrixVars, treeVars, crashed>>
    /\ UNCHANGED <<appVars, apiKey, defaultData>>

\* onClose ("Annuler" or "Fermer"): App stops rendering the TeacherZone
CloseTeacherZone ==
    /\ TeacherZoneShown
    /\ showTeacherZone' = FALSE
    /\ isAuthenticated' = FALSE
    /\ passwordInput' = <<>>
    /\ loginError' = FALSE
    /\ UNCHANGED <<apiKey, defaultData, crashed, state, exerciseData, topic,
                   difficulty, loading, error, calls, matrixVars, treeVars>>

(***************************************************************************)
(* MatrixExercise                                                          *)
(***************************************************************************)
MatrixShown == state = "matrix" /\ exerciseData # NoExercise /\ PageShown

toggleCell(taxonId, charId) ==
    /\ MatrixShown
    /\ taxonId \in TaxonIds(exerciseData)
    /\ charId \in CharacterIds(exerciseData)
    /\ IF matrixSuccess
       THEN UNCHANGED matrixVars
       ELSE /\ userMatrix' = ToggledMatrix(userMatrix, taxonId, charId)
            /\ showErrors' = FALSE
            /\ UNCHANGED matrixSuccess
    /\ UNCHANGED <<appVars, apiKey, defaultData, crashed, treeVars, teacherVars>>

\* checkMatrix, were hasErrors acted upon before allFilled.
checkMatrixErrorsFirst ==
    /\ MatrixShown
    /\ ~matrixSuccess
    /\ IF HasErrors(exerciseData, userMatrix)
       THEN showErrors' = TRUE /\ UNCHANGED matrixSuccess
       ELSE IF ~AllFilled(exerciseData, userMatrix)
            THEN UNCHANGED <<showErrors, matrixSuccess>>
            ELSE matrixSuccess' = TRUE /\ UNCHANGED showErrors
    /\ UNCHANGED <<appVars, apiKey, defaultData, crashed, userMatrix, treeVars,
                   teacherVars>>

\* "Verifier": the button is rendered when success is false
checkMatrix ==
    /\ MatrixShown
    /\ ~matrixSuccess
    /\ IF ~AllFilled(exerciseData, userMatrix)
       THEN UNCHANGED <<showErrors, matrixSuccess>>
       ELSE IF HasErrors(exerciseData, userMatrix)
            THEN showErrors' = TRUE /\ UNCHANGED matrixSuccess
            ELSE matrixSuccess' = TRUE /\ UNCHANGED showErrors
    /\ UNCHANGED <<appVars, apiKey, defaultData, crashed, userMatrix, treeVars,
                   teacherVars>>

(***************************************************************************)
(* TreeExercise                                                            *)
(***************************************************************************)
TreeShown == state = "tree" /\ exerciseData # NoExercise /\ PageShown

\* handleItemClick, were success not tested.
handleItemClickAfterSuccess(id, type) ==
    /\ TreeShown
    /\ id \in getAvailableItems(exerciseData, slots, type)
    /\ IF selectedItemId # NoSelection /\ selectedItemId.id = id
       THEN selectedItemId' = NoSelection
       ELSE selectedItemId' = [id |-> id, type |-> type]
    /\ UNCHANGED <<appVars, apiKey, defaultData, crashed, matrixVars, slots,
                   treeSuccess, mistakes, teacherVars>>

\* Click on an inventory button: the inventory lists getAvailableItems(type)
handleItemClick(id, type) ==
    /\ TreeShown
    /\ id \in getAvailableItems(exerciseData, slots, type)
    /\ IF treeSuccess
       THEN UNCHANGED selectedItemId
       ELSE IF selectedItemId # NoSelection /\ selectedItemId.id = id
            THEN selectedItemId' = NoSelection
            ELSE selectedItemId' = [id |-> id, type |-> type]
    /\ UNCHANGED <<appVars, apiKey, defaultData, crashed, matrixVars, slots,
                   treeSuccess, mistakes, teacherVars>>

\* checkCompletion, were a wrong tree counted before it is complete.
checkCompletionCountsIncomplete(currentSlots) ==
    IF SlotsAllFilled(currentSlots) /\ SlotsAllCorrect(currentSlots)
    THEN treeSuccess' = TRUE /\ UNCHANGED mistakes
    ELSE IF mistakes < MaxMistakes
         THEN mistakes' = mistakes + 1 /\ UNCHANGED treeSuccess
         ELSE UNCHANGED <<treeSuccess, mistakes>>

\* checkCompletion(currentSlots)
checkCompletion(currentSlots) ==
    IF SlotsAllFilled(currentSlots)
    THEN IF SlotsAllCorrect(currentSlots)
         THEN treeSuccess' = TRUE /\ UNCHANGED mistakes
         ELSE mistakes' = mistakes + 1 /\ UNCHANGED treeSuccess
    ELSE UNCHANGED <<treeSuccess, mistakes>>

\* handleSlotClick, were a click on a filled slot to do nothing.
handleSlotClickKeeps(slotIndex) ==
    /\ TreeShown
    /\ slotIndex \in DOMAIN slots
    /\ IF treeSuccess
       THEN UNCHANGED treeVars
       ELSE IF Truthy(slots[slotIndex].filledWithId)
       THEN UNCHANGED treeVars
       ELSE IF selectedItemId # NoSelection
               /\ selectedItemId.type = slots[slotIndex].type
       THEN LET newSlots ==
                    [slots EXCEPT ![slotIndex].filledWithId = selectedItemId.id]
            IN  /\ SlotsAllFilled(newSlots) /\ ~SlotsAllCorrect(newSlots)
                       => mistakes < MaxMistakes
                /\ selectedItemId' = NoSelection
                /\ checkCompletion(newSlots)
                /\ slots' = fossilEffect(treeSuccess', exerciseData, newSlots)
       ELSE UNCHANGED treeVars
    /\ UNCHANGED <<appVars, apiKey, defaultData, crashed, matrixVars, teacherVars>>

\* handleSlotClick, were the types of the item and of the slot not compared.
handleSlotClickAnyType(slotIndex) ==
    /\ TreeShown
    /\ slotIndex \in DOMAIN slots
    /\ IF treeSuccess
       THEN UNCHANGED treeVars
       ELSE IF Truthy(slots[slotIndex].filledWithId)
       THEN /\ slots' = [slots EXCEPT ![slotIndex].filledWithId = null]
            /\ UNCHANGED <<selectedItemId, treeSuccess, mistakes>>
       ELSE IF selectedItemId # NoSelection
       THEN LET newSlots ==
                    [slots EXCEPT ![slotIndex].filledWithId = selectedItemId.id]
            IN  /\ SlotsAllFilled(newSlots) /\ ~SlotsAllCorrect(newSlots)
                       => mistakes < MaxMistakes
                /\ selectedItemId' = NoSelection
                /\ checkCompletion(newSlots)
                /\ slots' = fossilEffect(treeSuccess', exerciseData, newSlots)
       ELSE UNCHANGED treeVars
    /\ UNCHANGED <<appVars, apiKey, defaultData, crashed, matrixVars, teacherVars>>

\* handleSlotClick, were a click on a filled slot to put the selected item
\* of the slot's type in the place of the one it holds.
handleSlotClickSwap(slotIndex) ==
    /\ TreeShown
    /\ slotIndex \in DOMAIN slots
    /\ IF treeSuccess
       THEN UNCHANGED treeVars
       ELSE IF selectedItemId # NoSelection
               /\ selectedItemId.type = slots[slotIndex].type
       THEN LET newSlots ==
                    [slots EXCEPT ![slotIndex].filledWithId = selectedItemId.id]
            IN  /\ SlotsAllFilled(newSlots) /\ ~SlotsAllCorrect(newSlots)
                       => mistakes < MaxMistakes
                /\ selectedItemId' = NoSelection
                /\ checkCompletion(newSlots)
                /\ slots' = fossilEffect(treeSuccess', exerciseData, newSlots)
       ELSE IF Truthy(slots[slotIndex].filledWithId)
       THEN /\ slots' = [slots EXCEPT ![slotIndex].filledWithId = null]
            /\ UNCHANGED <<selectedItemId, treeSuccess, mistakes>>
       ELSE UNCHANGED treeVars
    /\ UNCHANGED <<appVars, apiKey, defaultData, crashed, matrixVars, teacherVars>>

handleSlotClick(slotIndex) ==
    /\ TreeShown
    /\ slotIndex \in DOMAIN slots
    /\ IF treeSuccess
       THEN UNCHANGED treeVars
       ELSE IF Truthy(slots[slotIndex].filledWithId)
       THEN /\ slots' = [slots EXCEPT ![slotIndex].filledWithId = null]
            /\ UNCHANGED <<selectedItemId, treeSuccess, mistakes>>
       ELSE IF selectedItemId # NoSelection
               /\ selectedItemId.type = slots[slotIndex].type
       THEN LET newSlots ==
                    [slots EXCEPT ![slotIndex].filledWithId = selectedItemId.id]
            IN  /\ SlotsAllFilled(newSlots) /\ ~SlotsAllCorrect(newSlots)
                       => mistakes < MaxMistakes
                /\ selectedItemId' = NoSelection
                /\ checkCompletion(newSlots)
                /\ slots' = fossilEffect(treeSuccess', exerciseData, newSlots)
       ELSE UNCHANGED treeVars
    /\ UNCHANGED <<appVars, apiKey, defaultData, crashed, matrixVars, teacherVars>>

(***************************************************************************)
(* The App specification                                                   *)
(***************************************************************************)
Init ==
    /\ apiKey \in BOOLEAN
    /\ defaultData = DEFAULT_DATA
    /\ state = "setup"
    /\ exerciseData = NoExercise
    /\ topic = ""
    /\ difficulty = "Facile"
    /\ loading = FALSE
    /\ error = null
    /\ showTeacherZone = FALSE
    /\ calls = <<>>
    /\ userMatrix = UnmountedMatrix
    /\ showErrors = FALSE
    /\ matrixSuccess = FALSE
    /\ slots = <<>>
    /\ selectedItemId = NoSelection
    /\ treeSuccess = FALSE
    /\ mistakes = 0
    /\ isAuthenticated = FALSE
    /\ passwordInput = <<>>
    /\ loginError = FALSE
    /\ crashed = FALSE

Next ==
    \/ \E level \in Difficulties : SetDifficulty(level)
    \/ \E value \in Topics : SetTopic(value)
    \/ StartDemo
    \/ StartGenerate
    \/ \E i \in 1..MaxCalls : GenerateSettles(i)
    \/ \E i \in 1..MaxCalls : StartResumes(i)
    \/ Continue
    \/ OnComplete
    \/ OnRestart
    \/ HeaderClick
    \/ OpenTeacherZone
    \/ \E value \in TypedPasswords : SetPasswordInput(value)
    \/ handleLogin
    \/ CloseTeacherZone
    \/ \E t \in DisplayedTaxonIds : \E c \in DisplayedCharacterIds :
          toggleCell(t, c)
    \/ checkMatrix
    \/ \E type \in {"taxon", "attribute"} :
       \E id \in DisplayedTaxonIds \cup DisplayedCharacterIds :
          handleItemClick(id, type)
    \/ \E slotIndex \in DOMAIN slots : handleSlotClick(slotIndex)

Spec == Init /\ [][Next]_vars

\* The continuation of an await runs as soon as its promise has settled.
FairSpec == Spec /\ WF_vars(\E i \in 1..MaxCalls : StartResumes(i))

(***************************************************************************)
(* The matrix exercise on its own: the matrix screen just entered, for     *)
(* every answer key a response can carry over two taxa and two characters  *)
(* (a matrixList may leave a taxon out).                                   *)
(***************************************************************************)
MatrixTaxa == <<Taxon("t1", FALSE), Taxon("t2", FALSE)>>
MatrixCharacters == <<Character("c1"), Character("c2")>>

\* The matrixList that lists the taxa of key, in the order of MatrixTaxa.
MatrixListOf(key) ==
    LET listed == SelectSeq(MatrixTaxa, LAMBDA taxon : taxon.id \in DOMAIN key)
    IN  [i \in DOMAIN listed |-> MatrixItem(listed[i].id, key[listed[i].id])]

MatrixExercises ==
    {ParsedExercise(
         RawResponse("Facile", MatrixTaxa, MatrixCharacters, MatrixListOf(key),
                     <<Step("c1", "t1"), Step("c2", "t2")>>),
         "Moyen") :
       key \in UNION {[keys -> SUBSET {"c1", "c2"}] : keys \in SUBSET {"t1", "t2"}}}

MatrixInit ==
    /\ apiKey = TRUE
    /\ defaultData = DEFAULT_DATA
    /\ state = "matrix"
    /\ exerciseData \in MatrixExercises
    /\ topic = ""
    /\ difficulty = "Moyen"
    /\ loading = FALSE
    /\ error = null
    /\ showTeacherZone = FALSE
    /\ calls = <<>>
    /\ userMatrix = InitialMatrix(exerciseData)
    /\ showErrors = FALSE
    /\ matrixSuccess = FALSE
    /\ slots = <<>>
    /\ selectedItemId = NoSelection
    /\ treeSuccess = FALSE
    /\ mistakes = 0
    /\ isAuthenticated = FALSE
    /\ passwordInput = <<>>
    /\ loginError = FALSE
    /\ crashed = FALSE

MatrixNext ==
    \/ \E t \in DisplayedTaxonIds : \E c \in DisplayedCharacterIds :
          toggleCell(t, c)
    \/ checkMatrix

MatrixSpec == MatrixInit /\ [][MatrixNext]_vars

(***************************************************************************)
(* The tree exercise on its own: the tree screen just entered, until it is *)
(* left by its restart button.                                             *)
(***************************************************************************)
Exercise(taxons, characters, evolutionOrder) ==
    [difficulty |-> "Moyen", taxons |-> taxons, characters |-> characters,
     correctMatrix |-> [t \in {} |-> {}], evolutionOrder |-> evolutionOrder]

TreeExercises ==
    { \* the shape of DEFAULT_DATA
      Exercise(<<Taxon("t1", FALSE), Taxon("t2", FALSE)>>,
               <<Character("c1"), Character("c2")>>,
               <<Step("c1", "t1"), Step("c2", "t2")>>),
      \* three steps, a fossil, a root step without innovation; the lists
      \* are in another order than evolutionOrder
      Exercise(<<Taxon("t3", FALSE), Taxon("t1", TRUE), Taxon("t2", FALSE)>>,
               <<Character("c3"), Character("c2")>>,
               <<Step(null, "t1"), Step("c2", "t2"), Step("c3", "t3")>>),
      \* a step without taxon, and a taxon and a character no step names
      Exercise(<<Taxon("t1", FALSE), Taxon("t2", TRUE), Taxon("t9", FALSE)>>,
               <<Character("c1"), Character("c2"), Character("c9")>>,
               <<Step("c1", null), Step("c2", "t2")>>),
      \* a step naming a taxon that is not in taxons
      Exercise(<<Taxon("t1", FALSE), Taxon("t2", FALSE)>>,
               <<Character("c1")>>,
               <<Step("c1", "t1"), Step(null, "zz")>>),
      \* a taxon named by two steps
      Exercise(<<Taxon("t1", FALSE), Taxon("t2", FALSE)>>,
               <<Character("c1")>>,
               <<Step(null, "t1"), Step("c1", "t1")>>),
      \* a taxon and a character with the same id
      Exercise(<<Taxon("x", FALSE), Taxon("t2", FALSE)>>,
               <<Character("x"), Character("c2")>>,
               <<Step("x", "x"), Step("c2", "t2")>>),
      \* three complete steps, a fossil, and a character no step names that
      \* has the id of a taxon
      Exercise(<<Taxon("t2", FALSE), Taxon("x", TRUE), Taxon("t3", FALSE)>>,
               <<Character("c3"), Character("x"), Character("c1"),
                 Character("c2")>>,
               <<Step("c1", "x"), Step("c2", "t2"), Step("c3", "t3")>>),
      \* one step
      Exercise(<<Taxon("t1", TRUE)>>, <<Character("c1")>>,
               <<Step("c1", "t1")>>),
      \* four steps, two of them without taxon and one without innovation
      Exercise(<<Taxon("t1", FALSE), Taxon("t2", FALSE)>>,
               <<Character("c1"), Character("c2"), Character("c3")>>,
               <<Step("c1", "t1"), Step("c2", null), Step(null, "t2"),
                 Step("c3", null)>>) }

TreeInit ==
    /\ apiKey = TRUE
    /\ defaultData = DEFAULT_DATA
    /\ state = "tree"
    /\ exerciseData \in TreeExercises
    /\ topic \in Topics
    /\ difficulty = "Moyen"
    /\ loading = FALSE
    /\ error = null
    /\ showTeacherZone = FALSE
    /\ calls = <<>>
    /\ userMatrix = UnmountedMatrix
    /\ showErrors = FALSE
    /\ matrixSuccess = FALSE
    /\ slots = GenerateSlots(exerciseData)
    /\ selectedItemId = NoSelection
    /\ treeSuccess = FALSE
    /\ mistakes = 0
    /\ isAuthenticated = FALSE
    /\ passwordInput = <<>>
    /\ loginError = FALSE
    /\ crashed = FALSE

TreeNext ==
    \/ \E type \in {"taxon", "attribute"} :
       \E id \in DisplayedTaxonIds \cup DisplayedCharacterIds :
          handleItemClick(id, type)
    \/ \E slotIndex \in DOMAIN slots : handleSlotClick(slotIndex)
    \/ OnRestart

TreeSpec == TreeInit /\ [][TreeNext]_vars

(***************************************************************************)
(* Properties                                                              *)
(***************************************************************************)
\* A startExercise that succeeds: the demo, or a generation whose call
\* returned an exercise.
SuccessfulStart ==
    /\ exerciseData' # NoExercise
    /\ \/ ~loading /\ calls' = calls
       \/ \E i \in DOMAIN calls :
             /\ calls[i].status = "fulfilled"
             /\ calls' = Without(calls, i)
             /\ exerciseData'.evolutionOrder = calls[i].data.evolutionOrder

\* C1: the screen changes only by setup -> info (a successful exercise
\* start), info -> matrix, matrix -> tree, and any screen -> setup; no step
\* skips a screen.
C1_ScreenTransitions ==
    [][state' # state =>
          \/ state = "setup" /\ state' = "info" /\ SuccessfulStart
          \/ state = "info" /\ state' = "matrix"
          \/ state = "matrix" /\ state' = "tree"
          \/ state' = "setup"]_vars

C1_Witness == state = "tree" /\ treeSuccess

\* Character charId is listed in correctMatrix[taxonId].
Listed(data, taxonId, charId) ==
    /\ taxonId \in DOMAIN data.correctMatrix
    /\ charId \in data.correctMatrix[taxonId]

\* Every displayed cell of matrix is filled, with present exactly where the
\* character is listed for the taxon.
MatrixComplete(data, matrix) ==
    \A t \in TaxonIds(data) : \A c \in CharacterIds(data) :
        /\ t \in DOMAIN matrix /\ c \in DOMAIN matrix[t]
        /\ matrix[t][c] \in {"true", "false"}
        /\ (matrix[t][c] = "true") <=> Listed(data, t, c)

AllUnset(data, matrix) ==
    \A t \in TaxonIds(data) : \A c \in CharacterIds(data) :
        CellValue(matrix, t, c) = undefined

\* C2: the app moves from matrix to tree only when the matrix's success is
\* set; success is set only by a check, on the matrix screen, of a matrix
\* that is filled and equal to the answer key, and implies that for as long
\* as it is true; every entry into the matrix screen starts all-unset and
\* without success.
C2_TreeOnlyAfterMatrix ==
    /\ [](matrixSuccess =>
             state = "matrix" /\ MatrixComplete(exerciseData, userMatrix))
    /\ [][/\ (state' = "tree" /\ state # "tree") =>
                 (state = "matrix" /\ matrixSuccess)
          /\ (state' = "matrix" /\ state # "matrix") =>
                 (~matrixSuccess' /\ AllUnset(exerciseData', userMatrix'))
          /\ (matrixSuccess' /\ ~matrixSuccess) =>
                 /\ state = "matrix" /\ state' = "matrix"
                 /\ userMatrix' = userMatrix
                 /\ exerciseData' = exerciseData
                 /\ MatrixComplete(exerciseData, userMatrix)]_vars

C2_Witness == state = "matrix" /\ matrixSuccess /\ exerciseData.difficulty = "Moyen"

\* The cycle unset -> present -> absent -> unset.
CycleNext(value) ==
    CASE value = undefined -> "true"
      [] value = "true" -> "false"
      [] value = "false" -> undefined

\* C3: a click on a cell moves its value one step along unset -> present ->
\* absent -> unset and changes no other cell; for every cell and every value
\* it holds, one click gives the next value, two clicks the one after, and
\* three clicks give back the matrix as it was.
C3_ThreeStateCycle ==
    /\ [](MatrixShown /\ ~matrixSuccess =>
             \A t \in DisplayedTaxonIds : \A c \in DisplayedCharacterIds :
                LET once == ToggledMatrix(userMatrix, t, c)
                    twice == ToggledMatrix(once, t, c)
                    thrice == ToggledMatrix(twice, t, c)
                    value == userMatrix[t][c]
                IN  /\ once = [userMatrix EXCEPT ![t][c] = CycleNext(value)]
                    /\ twice = [userMatrix EXCEPT
                                   ![t][c] = CycleNext(CycleNext(value))]
                    /\ thrice = userMatrix
                    /\ ENABLED (toggleCell(t, c) /\ userMatrix' = once))
    /\ [][(state = "matrix" /\ state' = "matrix" /\ userMatrix' # userMatrix) =>
             \E t \in DisplayedTaxonIds : \E c \in DisplayedCharacterIds :
                userMatrix' =
                    [userMatrix EXCEPT ![t][c] = CycleNext(userMatrix[t][c])]]_vars

C3_Witness ==
    /\ state = "matrix"
    /\ \E t \in DisplayedTaxonIds : \E c \in DisplayedCharacterIds :
          userMatrix[t][c] = "false"
    /\ \E t \in DisplayedTaxonIds : \E c \in DisplayedCharacterIds :
          userMatrix[t][c] = "true"
    /\ \E t \in DisplayedTaxonIds : \E c \in DisplayedCharacterIds :
          userMatrix[t][c] = undefined

\* The matrix the answer key asks for: present where the character is
\* listed for the taxon, absent elsewhere.
KeyMatrix(data) ==
    [t \in TaxonIds(data) |->
        [c \in CharacterIds(data) |->
            IF Listed(data, t, c) THEN "true" ELSE "false"]]

\* A press of "Verifier" that changes something.
CheckTakesEffect ==
    /\ MatrixShown /\ ~matrixSuccess
    /\ state' = state /\ exerciseData' = exerciseData
    /\ userMatrix' = userMatrix
    /\ <<showErrors, matrixSuccess>>' # <<showErrors, matrixSuccess>>

\* C4: for every payload (a displayed taxon may have no key in
\* correctMatrix), with the matrix filled as the answer key asks, a press of
\* "Verifier" sets success and does not set showErrors.
C4_KeyMatrixAccepted ==
    [][(userMatrix = KeyMatrix(exerciseData) /\ CheckTakesEffect) =>
          (matrixSuccess' /\ ~showErrors')]_vars

\* The tree is filled, every slot with its expected id.
TreeSolved ==
    \A i \in DOMAIN slots :
        /\ slots[i].filledWithId # null
        /\ slots[i].filledWithId = slots[i].expectedId

\* The slots but for their height, which the fossils' slots change when
\* the tree is solved.
Heightless(currentSlots) ==
    [i \in DOMAIN currentSlots |-> [currentSlots[i] EXCEPT !.y = Zero]]

\* A click that puts an item into an empty slot and leaves no slot empty.
PlacementFillsLastSlot ==
    /\ state = "tree" /\ state' = "tree" /\ ~treeSuccess
    /\ \E i \in DOMAIN slots :
          /\ slots[i].filledWithId = null
          /\ slots'[i].filledWithId # null
          /\ Heightless(slots')
                = Heightless([slots EXCEPT
                                ![i].filledWithId = slots'[i].filledWithId])
    /\ \A i \in DOMAIN slots' : slots'[i].filledWithId # null

\* C5: tree success becomes true exactly when a placement fills the last
\* empty slot and every slot then holds its expected id; whenever success is
\* true, every slot is filled with its expected id.
C5_TreeSuccess ==
    /\ [](treeSuccess => TreeSolved)
    /\ [][(~treeSuccess /\ treeSuccess') <=>
             (PlacementFillsLastSlot /\ TreeSolved')]_vars

C5_Witness == treeSuccess /\ Len(slots) = 5

UpperChar(ch) ==
    CASE ch = "d" -> "D" [] ch = "a" -> "A" [] ch = "r" -> "R"
      [] ch = "w" -> "W" [] ch = "i" -> "I" [] ch = "n" -> "N"

\* input is 'darwin' in any mix of cases, between any whitespace.
SpellsDarwin(input) ==
    \E before \in 0..Len(input) :
       /\ Len(input) >= before + 6
       /\ \A i \in 1..before : input[i] \in Whitespace
       /\ \A k \in 1..6 :
             input[before + k] \in {Password[k], UpperChar(Password[k])}
       /\ \A i \in (before + 7)..Len(input) : input[i] \in Whitespace

\* C6: isAuthenticated (the answer sheet is rendered) is set only by a login
\* submission whose input, lower-cased and trimmed, is 'darwin'; it is true
\* only while the teacher zone is open, and every opening of the teacher
\* zone starts unauthenticated.
C6_TeacherLogin ==
    /\ [](isAuthenticated => TeacherZoneShown)
    /\ [][/\ (isAuthenticated' /\ ~isAuthenticated) =>
                 /\ TeacherZoneShown /\ showTeacherZone'
                 /\ SpellsDarwin(passwordInput)
                 /\ passwordInput' = passwordInput
          /\ (showTeacherZone' /\ ~showTeacherZone) => ~isAuthenticated']_vars

C6_Witness == isAuthenticated /\ state = "info"

\* What the corrected tree of the teacher sheet shows where the interactive
\* tree has slot.
TeacherShownFor(data, slot) ==
    IF slot.id[1] = "taxon"
    THEN TeacherTaxonShown(data, slot.id[2])
    ELSE TeacherCharacterShown(data, slot.id[2])

TreeAsTeacherSheet ==
    /\ slots # <<>>
    /\ \A i \in DOMAIN slots :
          slots[i].filledWithId = TeacherShownFor(exerciseData, slots[i])

\* C7: at every index of evolutionOrder, the taxon and the character the
\* corrected tree of the teacher sheet shows are the expectedId of the slots
\* taxon-index and attr-index, and a slot whose expected item exists is shown
\* filled with it; a tree filled slot by slot as the teacher sheet shows has
\* success.
C7_TeacherTreeAccepted ==
    TreeShown =>
      /\ \A index \in 0..(Len(exerciseData.evolutionOrder) - 1) :
            /\ TeacherTaxonShown(exerciseData, index) # undefined =>
                  \E i \in DOMAIN slots :
                     /\ slots[i].id = <<"taxon", index>>
                     /\ slots[i].expectedId =
                            TeacherTaxonShown(exerciseData, index)
            /\ TeacherCharacterShown(exerciseData, index) # undefined =>
                  \E i \in DOMAIN slots :
                     /\ slots[i].id = <<"attr", index>>
                     /\ slots[i].expectedId =
                            TeacherCharacterShown(exerciseData, index)
      /\ \A i \in DOMAIN slots :
            slots[i].expectedId \in
                (IF slots[i].type = "taxon" THEN DisplayedTaxonIds
                 ELSE DisplayedCharacterIds)
            => TeacherShownFor(exerciseData, slots[i]) = slots[i].expectedId
      /\ TreeAsTeacherSheet => treeSuccess

C7_Witness ==
    /\ TreeShown /\ TreeAsTeacherSheet /\ treeSuccess
    /\ \E i \in DOMAIN exerciseData.taxons : exerciseData.taxons[i].isFossil

\* Whether the checker's verdict on a filled cell is that it differs from
\* the sheet: present where the sheet is blank, or absent where it has 'X'.
DiffersFromSheet(data, matrix, t, c) ==
    \/ matrix[t][c] = "true" /\ SheetMark(data, t, c) = ""
    \/ matrix[t][c] = "false" /\ SheetMark(data, t, c) = "X"

\* C8: for every payload and every cell, the sheet marks 'X' exactly when
\* checkMatrix accepts present for the cell and leaves it blank exactly when
\* checkMatrix accepts absent: a filled cell is counted as an error exactly
\* when it differs from the sheet.
C8_SheetAgreesWithChecker ==
    MatrixShown =>
       \A t \in DisplayedTaxonIds : \A c \in DisplayedCharacterIds :
          userMatrix[t][c] # undefined =>
             (CellError(exerciseData, userMatrix, t, c)
                <=> DiffersFromSheet(exerciseData, userMatrix, t, c))

\* A startExercise(true) whose generateExercise threw returns.
FailedStartReturns(i) ==
    /\ i \in DOMAIN calls
    /\ calls[i].status = "rejected"
    /\ calls' = Without(calls, i)

\* C9: when a generation attempt fails, the app stays on setup, exerciseData
\* is unchanged, error is the one message, loading is false again and no
\* request is left or made; a request is made only by a click on the
\* generate button while it is enabled.
C9_FailedGeneration ==
    [][/\ \A i \in DOMAIN calls :
             FailedStartReturns(i) =>
                /\ state = "setup" /\ state' = "setup"
                /\ exerciseData' = exerciseData
                /\ error' = ErrorMessage
                /\ ~loading'
                /\ calls' = <<>>
                /\ UNCHANGED <<matrixVars, treeVars>>
       /\ Len(calls') > Len(calls) =>
             (state = "setup" /\ ~loading /\ loading' /\ error' = null)
       /\ \A i \in DOMAIN calls' :
             calls'[i].status = "pending" =>
                \/ Len(calls') > Len(calls)
                \/ i \in DOMAIN calls /\ calls[i].status = "pending"]_vars

C9_Witness ==
    /\ apiKey /\ state = "setup" /\ ~loading /\ calls = <<>>
    /\ error = ErrorMessage /\ exerciseData = NoExercise

Settled ==
    \E i \in DOMAIN calls : calls[i].status \in {"fulfilled", "rejected"}

\* C10: at most one generation is in flight; while loading is true no
\* exercise is started by either button and the screen is setup; loading is
\* false again after the request has settled.
C10_SingleRequest ==
    /\ [](Len(calls) <= 1)
    /\ [](loading <=> calls # <<>>)
    /\ [](loading => state = "setup")
    /\ [][loading =>
             /\ Len(calls') <= Len(calls)
             /\ exerciseData' # exerciseData =>
                   \E i \in DOMAIN calls :
                      calls[i].status = "fulfilled" /\ calls' = Without(calls, i)]_vars
    /\ (Settled ~> ~loading)

C10_Witness ==
    /\ ~loading /\ state = "info" /\ calls = <<>>
    /\ "a" \in DisplayedTaxonIds

\* C11: generateExercise throws in both error cases and never returns a
\* partial exercise: without an API key it throws and no request was sent;
\* a response without text makes it throw; it returns, and then a whole
\* ExerciseData, only when the response text was present and parsed.
C11_GenerateThrowsOrReturns ==
    \A i \in DOMAIN calls :
        /\ ~apiKey <=> calls[i].response = "none"
        /\ calls[i].response = "none" => calls[i].status = "rejected"
        /\ calls[i].response = "empty" => calls[i].status = "rejected"
        /\ calls[i].status = "rejected" => calls[i].data = NoExercise
        /\ calls[i].status = "pending" =>
               calls[i].response = "sent" /\ calls[i].data = NoExercise
        /\ calls[i].status = "fulfilled" <=> calls[i].response = "text"
        /\ calls[i].status = "fulfilled" =>
               \E rawData \in AppResponses :
                  calls[i].data = ParsedExercise(rawData, calls[i].difficulty)

C11_Witness ==
    \E i \in DOMAIN calls :
        calls[i].status = "rejected" /\ calls[i].response = "empty"

\* The number of positions of seq that hold x.
Count(seq, x) == Cardinality({i \in DOMAIN seq : seq[i] = x})

\* Same elements, each as many times.
IsPermutation(a, b) ==
    /\ Len(a) = Len(b)
    /\ \A i \in DOMAIN a : Count(a, a[i]) = Count(b, a[i])

\* stored is source with its taxons and its characters reordered, and
\* nothing else changed.
ShuffleOf(source, stored) ==
    /\ IsPermutation(source.taxons, stored.taxons)
    /\ IsPermutation(source.characters, stored.characters)
    /\ stored.correctMatrix = source.correctMatrix
    /\ stored.evolutionOrder = source.evolutionOrder
    /\ stored.difficulty = source.difficulty

\* C12: the demo can be started on the setup screen whether or not an API
\* key is configured; a demo start makes no request and leaves loading
\* false, and in that one step stores the default exercise and moves from
\* setup to info.
C12_DemoStart ==
    /\ [](state = "setup" /\ ~loading => ENABLED StartDemo)
    /\ [][StartDemo =>
             /\ calls' = calls /\ calls = <<>>
             /\ ~loading /\ ~loading'
             /\ error' = error
             /\ state = "setup" /\ state' = "info"
             /\ ShuffleOf(DEFAULT_DATA, exerciseData')]_vars

C12_Witness ==
    /\ ~apiKey /\ state = "info" /\ ~loading /\ calls = <<>>
    /\ ShuffleOf(DEFAULT_DATA, exerciseData)

\* Arrays with an element held twice, to shuffle.
ShuffleInputs == {<<"a", "b", "c">>, <<"a", "a", "b">>, <<"a">>, <<>>}

\* The exercises that differ from data by the order of taxons and characters.
Reorderings(data) ==
    {[data EXCEPT !.taxons = taxons, !.characters = characters] :
        taxons \in shuffleArray(data.taxons),
        characters \in shuffleArray(data.characters)}

\* C13: a start stores a reordering of its source (the default exercise, or
\* what generateExercise returned): taxons and characters are permutations,
\* correctMatrix and evolutionOrder are as in the source; DEFAULT_DATA is
\* never changed; and what the matrix check and the tree accept is the same
\* for every order a shuffle can give.
C13_ShuffleOnlyReorders ==
    /\ [](defaultData = DEFAULT_DATA)
    /\ [](\A array \in ShuffleInputs : \A newArray \in shuffleArray(array) :
             IsPermutation(array, newArray))
    /\ [][exerciseData' # exerciseData =>
             IF calls' = calls
             THEN ShuffleOf(DEFAULT_DATA, exerciseData')
             ELSE \E i \in DOMAIN calls :
                     /\ calls[i].status = "fulfilled"
                     /\ calls' = Without(calls, i)
                     /\ ShuffleOf(calls[i].data, exerciseData')]_vars
    /\ [](exerciseData # NoExercise =>
             \A other \in Reorderings(exerciseData) :
                /\ GenerateSlots(other) = GenerateSlots(exerciseData)
                /\ InitialMatrix(other) = InitialMatrix(exerciseData)
                /\ state = "matrix" =>
                      /\ AllFilled(other, userMatrix)
                            <=> AllFilled(exerciseData, userMatrix)
                      /\ HasErrors(other, userMatrix)
                            <=> HasErrors(exerciseData, userMatrix)
                      /\ MatrixComplete(other, userMatrix)
                            <=> MatrixComplete(exerciseData, userMatrix))

\* The validated matrix of a default exercise whose taxons were reordered.
C13_Witness ==
    /\ state = "matrix" /\ matrixSuccess
    /\ exerciseData.taxons # DEFAULT_DATA.taxons
    /\ ShuffleOf(DEFAULT_DATA, exerciseData)

\* C14: a request is issued with the difficulty selected at that moment;
\* the difficulty of a request in flight does not change when the selector
\* does; the exercise generateExercise returns, and the one that is stored,
\* have the difficulty of the request and not the one the response states.
C14_RequestedDifficulty ==
    /\ [](\A i \in DOMAIN calls :
             calls[i].status = "fulfilled" =>
                calls[i].data.difficulty = calls[i].difficulty)
    /\ [][/\ Len(calls') > Len(calls) =>
                calls'[Len(calls')].difficulty = difficulty
          /\ Len(calls') = Len(calls) =>
                \A i \in DOMAIN calls :
                   calls'[i].difficulty = calls[i].difficulty
          /\ (exerciseData' # exerciseData /\ calls' # calls) =>
                \E i \in DOMAIN calls :
                   /\ calls' = Without(calls, i)
                   /\ exerciseData'.difficulty = calls[i].difficulty]_vars

\* A generated exercise asked for as Facile, answered as Difficile, stored
\* while the selector shows Moyen.
C14_Witness ==
    /\ state = "info" /\ "a" \in DisplayedTaxonIds
    /\ exerciseData.difficulty = "Facile"
    /\ difficulty = "Moyen"

\* The displayed cells, as pairs.
Cells == DisplayedTaxonIds \X DisplayedCharacterIds

\* The matrices differ in cell and in no other displayed cell.
OnlyCellDiffers(matrix, nextMatrix, cell) ==
    \A other \in Cells :
        (CellValue(nextMatrix, other[1], other[2])
            # CellValue(matrix, other[1], other[2])) <=> other = cell

\* C15: a click on cell (t, c) changes that cell and no other, leaves
\* success as it is and sets showErrors to false; once success is true a
\* click on a cell changes nothing.
C15_ToggleFrame ==
    /\ [](MatrixShown /\ matrixSuccess =>
             \A cell \in Cells :
                /\ ENABLED toggleCell(cell[1], cell[2])
                /\ ~ENABLED (toggleCell(cell[1], cell[2]) /\ vars' # vars))
    /\ [](MatrixShown /\ ~matrixSuccess =>
             \A cell \in Cells :
                /\ ENABLED toggleCell(cell[1], cell[2])
                /\ ~ENABLED (toggleCell(cell[1], cell[2]) /\ showErrors'))
    /\ [][\A cell \in Cells :
             toggleCell(cell[1], cell[2]) =>
                /\ OnlyCellDiffers(userMatrix, userMatrix', cell)
                /\ matrixSuccess' = matrixSuccess
                /\ ~showErrors'
                /\ UNCHANGED <<appVars, treeVars, teacherVars>>]_vars
    /\ [][userMatrix' # userMatrix =>
             /\ \E cell \in Cells :
                   OnlyCellDiffers(userMatrix, userMatrix', cell)
             /\ matrixSuccess' = matrixSuccess
             /\ ~showErrors']_vars

\* The error banner is up over a full matrix: the next click on a cell
\* takes it down.
C15_Witness ==
    /\ MatrixShown /\ showErrors
    /\ \A cell \in Cells : userMatrix[cell[1]][cell[2]] = "true"

SomeCellUnset ==
    \E cell \in Cells : CellValue(userMatrix, cell[1], cell[2]) = undefined

\* A filled cell that is not what the answer key asks.
SomeCellWrong ==
    \E cell \in Cells :
        /\ CellValue(userMatrix, cell[1], cell[2]) # undefined
        /\ (CellValue(userMatrix, cell[1], cell[2]) = "true")
              # Listed(exerciseData, cell[1], cell[2])

\* C16: while a cell is unset, "Verifier" can be pressed and changes neither
\* userMatrix nor showErrors nor success, whatever the filled cells hold.
C16_IncompleteCheck ==
    /\ [](MatrixShown /\ ~matrixSuccess /\ SomeCellUnset =>
             /\ ENABLED checkMatrix
             /\ ~ENABLED (checkMatrix /\ matrixVars' # matrixVars))
    /\ [][(MatrixShown /\ SomeCellUnset /\ userMatrix' = userMatrix) =>
             UNCHANGED <<showErrors, matrixSuccess>>]_vars

C16_Witness ==
    /\ MatrixShown /\ ~matrixSuccess /\ ~showErrors
    /\ SomeCellUnset /\ SomeCellWrong

\* C17: showErrors and success are never both true, and while showErrors is
\* true every cell is filled and some cell differs from the answer key.
C17_ErrorBanner ==
    MatrixShown =>
       /\ ~(showErrors /\ matrixSuccess)
       /\ showErrors => (~SomeCellUnset /\ SomeCellWrong)

SlotTypes == {"taxon", "attribute"}

\* The ids of the payload's items of a type.
ItemIdsOfType(type) ==
    IF type = "taxon" THEN DisplayedTaxonIds ELSE DisplayedCharacterIds

\* A click on slot i would place the selected item.
SelectionFits(i) ==
    selectedItemId # NoSelection /\ selectedItemId.type = slots[i].type

\* C18: an empty slot is filled only with the selected item, only when the
\* item's type is the slot's, and the selection is then cleared; a click on
\* an empty slot with no selection or with an item of the other type changes
\* nothing; every filled slot holds the id of an item of its own type.
C18_TypedPlacement ==
    /\ [](TreeShown =>
             /\ \A i \in DOMAIN slots :
                   slots[i].filledWithId # null =>
                      slots[i].filledWithId \in ItemIdsOfType(slots[i].type)
             /\ selectedItemId # NoSelection =>
                   selectedItemId.id \in ItemIdsOfType(selectedItemId.type))
    /\ [](TreeShown /\ ~treeSuccess =>
             \A i \in DOMAIN slots :
                (slots[i].filledWithId = null /\ ~SelectionFits(i)) =>
                   /\ ENABLED handleSlotClick(i)
                   /\ ~ENABLED (handleSlotClick(i) /\ vars' # vars))
    /\ [][\A i \in DOMAIN slots \cap DOMAIN slots' :
             (slots[i].filledWithId = null /\ slots'[i].filledWithId # null) =>
                /\ SelectionFits(i)
                /\ Heightless(slots')
                      = Heightless([slots EXCEPT
                                      ![i].filledWithId = selectedItemId.id])
                /\ selectedItemId' = NoSelection]_vars

\* A slot is filled, and a taxon is selected while an attribute slot is
\* empty: a click on that slot places nothing.
C18_Witness ==
    /\ TreeShown /\ ~treeSuccess
    /\ \E i \in DOMAIN slots : slots[i].filledWithId # null
    /\ selectedItemId.type = "taxon"
    /\ \E i \in DOMAIN slots :
          slots[i].type = "attribute" /\ slots[i].filledWithId = null

\* The slots of a type that hold the item id.
HeldBy(type, id) ==
    {i \in DOMAIN slots : slots[i].type = type /\ slots[i].filledWithId = id}

\* C19: no item is held by two slots; the selected item is not placed; a
\* taxon (a character) is offered in the inventory exactly when no taxon
\* slot (attribute slot) holds it.
C19_Inventory ==
    TreeShown =>
       /\ \A type \in SlotTypes : \A id \in ItemIdsOfType(type) :
             Cardinality(HeldBy(type, id)) <= 1
       /\ selectedItemId # NoSelection =>
             HeldBy(selectedItemId.type, selectedItemId.id) = {}
       /\ \A type \in SlotTypes : \A id \in ItemIdsOfType(type) :
             id \in getAvailableItems(exerciseData, slots, type)
                <=> HeldBy(type, id) = {}

\* C20: before success, a click on a filled slot empties that slot and does
\* nothing else: the other slots, the selection, success and mistakes are
\* unchanged, and the item is offered again.
C20_RemoveOnly ==
    /\ [](TreeShown /\ ~treeSuccess =>
             \A i \in DOMAIN slots :
                slots[i].filledWithId # null =>
                   /\ ENABLED handleSlotClick(i)
                   /\ ~ENABLED (handleSlotClick(i)
                                  /\ slots'[i].filledWithId # null))
    /\ [][\A i \in DOMAIN slots \cap DOMAIN slots' :
             (slots[i].filledWithId # null
                /\ slots'[i].filledWithId # slots[i].filledWithId) =>
                /\ ~treeSuccess
                /\ slots' = [slots EXCEPT ![i].filledWithId = null]
                /\ UNCHANGED <<selectedItemId, treeSuccess, mistakes>>
                /\ slots[i].filledWithId
                      \in getAvailableItems(exerciseData, slots', slots[i].type)
                /\ UNCHANGED <<appVars, matrixVars, teacherVars>>]_vars

\* A complete but wrong tree was counted, an item was then taken out of its
\* slot, and an item is selected.
C20_Witness ==
    /\ TreeShown /\ ~treeSuccess /\ mistakes > 0
    /\ selectedItemId # NoSelection
    /\ \E i \in DOMAIN slots : slots[i].filledWithId = null

\* C21: mistakes is 0 when the tree screen is entered; while the tree is
\* shown it changes only by + 1, in the step in which a placement fills the
\* last empty slot and some slot does not hold its expected id, and that
\* step leaves success false.
C21_MistakesCounter ==
    [][/\ (state' = "tree" /\ state # "tree") => mistakes' = 0
       /\ mistakes' # mistakes =>
             \/ state = "tree" /\ state' # "tree" /\ mistakes' = 0
             \/ /\ mistakes' = mistakes + 1
                /\ PlacementFillsLastSlot /\ ~TreeSolved'
       /\ (PlacementFillsLastSlot /\ ~TreeSolved') =>
             (mistakes' = mistakes + 1 /\ ~treeSuccess')]_vars

\* A complete and wrong tree, counted.
C21_Witness ==
    /\ state = "tree" /\ ~treeSuccess /\ mistakes = 1
    /\ \A i \in DOMAIN slots : slots[i].filledWithId # null

\* The content of the slots.
Content(currentSlots) ==
    [i \in DOMAIN currentSlots |-> currentSlots[i].filledWithId]

\* C22: once success is true, clicks on items and on slots change nothing;
\* success stays true while the tree of this exercise is shown; the
\* restart button can be pressed exactly while success is true, and it
\* returns to setup with the topic cleared.
C22_SuccessAbsorbing ==
    /\ [](TreeShown /\ treeSuccess =>
             /\ \A i \in DOMAIN slots :
                   /\ ENABLED handleSlotClick(i)
                   /\ ~ENABLED (handleSlotClick(i) /\ vars' # vars)
             /\ \A type \in SlotTypes :
                \A id \in getAvailableItems(exerciseData, slots, type) :
                   /\ ENABLED handleItemClick(id, type)
                   /\ ~ENABLED (handleItemClick(id, type) /\ vars' # vars))
    /\ [](state = "tree" => (ENABLED OnRestart <=> TreeShown /\ treeSuccess))
    /\ [][(treeSuccess /\ state' = "tree") =>
             /\ treeSuccess'
             /\ selectedItemId' = selectedItemId
             /\ Content(slots') = Content(slots)
             /\ exerciseData' = exerciseData]_vars
    /\ [][OnRestart =>
             /\ treeSuccess
             /\ state' = "setup" /\ topic' = ""
             /\ exerciseData' = exerciseData]_vars

\* A solved tree, with an item left in the inventory to click on and a
\* topic for the restart to clear.
C22_Witness ==
    /\ TreeShown /\ treeSuccess /\ topic # ""
    /\ getAvailableItems(exerciseData, slots, "taxon") # {}

\* The taxon slots, and those whose expected id is a fossil's.
TaxonSlots == {i \in DOMAIN slots : slots[i].type = "taxon"}

ExpectsFossil(i) ==
    \E t \in DOMAIN exerciseData.taxons :
        /\ exerciseData.taxons[t].id = slots[i].expectedId
        /\ exerciseData.taxons[t].isFossil

TopY == Num(TAXON_TOP_Y)

FossilY == Num(TAXON_TOP_Y + FOSSIL_OFFSET_Y)

\* C23: while success is false every taxon slot is at y = TAXON_TOP_Y; once
\* it is true the taxon slots that expect a fossil, and no others, are at
\* y = TAXON_TOP_Y + FOSSIL_OFFSET_Y; the step that sets success moves no
\* other slot and changes no content but the placed item's, and nothing of
\* the slots changes while success stays true.
C23_FossilsRevealedOnSuccess ==
    /\ [](state = "tree" /\ ~treeSuccess =>
             \A i \in TaxonSlots : slots[i].y = TopY)
    /\ [](state = "tree" /\ treeSuccess =>
             \A i \in TaxonSlots :
                /\ ExpectsFossil(i) => slots[i].y = FossilY
                /\ ~ExpectsFossil(i) => slots[i].y = TopY)
    /\ [][(state = "tree" /\ ~treeSuccess /\ treeSuccess') =>
             /\ DOMAIN slots' = DOMAIN slots
             /\ \A i \in DOMAIN slots :
                   /\ slots'[i].x = slots[i].x
                   /\ (i \notin TaxonSlots \/ ~ExpectsFossil(i)) =>
                         slots'[i].y = slots[i].y
                   /\ slots[i].filledWithId # null =>
                         slots'[i].filledWithId = slots[i].filledWithId]_vars
    /\ [][(treeSuccess /\ treeSuccess') => slots' = slots]_vars

\* A solved tree with a fossil's slot moved down, another taxon's slot left
\* at the top, and an attribute slot.
C23_Witness ==
    /\ state = "tree" /\ treeSuccess
    /\ \E i \in TaxonSlots : ExpectsFossil(i) /\ slots[i].y = FossilY
    /\ \E i \in TaxonSlots : ~ExpectsFossil(i) /\ slots[i].y = TopY
    /\ \E i \in DOMAIN slots : slots[i].type = "attribute"

\* Every evolutionOrder entry names a taxon of taxons and a character of
\* characters, and no id is named twice.
WellFormed(data) ==
    LET order == data.evolutionOrder
        Named(n) == {order[n].characterId, order[n].branchingTaxonId}
    IN  /\ \A n \in DOMAIN order :
              /\ order[n].branchingTaxonId \in TaxonIds(data)
              /\ order[n].characterId \in CharacterIds(data)
              /\ order[n].characterId # order[n].branchingTaxonId
        /\ \A m, n \in DOMAIN order : m # n => Named(m) \cap Named(n) = {}

\* The item a slot expects.
Wanted(i) == [id |-> slots[i].expectedId, type |-> slots[i].type]

\* How far the tree is from solved: three for each slot that holds a wrong
\* item and for each slot that does not hold its item, and 0, 1 or 2 for a
\* selection that an empty slot expects, no selection, or another one.
DistanceToSuccess ==
    3 * Cardinality({i \in DOMAIN slots :
                       /\ slots[i].filledWithId # null
                       /\ slots[i].filledWithId # slots[i].expectedId})
    + 3 * Cardinality({i \in DOMAIN slots :
                         slots[i].filledWithId # slots[i].expectedId})
    + (IF selectedItemId = NoSelection THEN 1
       ELSE IF \E i \in DOMAIN slots :
                  slots[i].filledWithId = null /\ selectedItemId = Wanted(i)
            THEN 0
            ELSE 2)

\* A click on an inventory item or on a slot.
TreeClick ==
    \/ \E type \in {"taxon", "attribute"} :
       \E id \in DisplayedTaxonIds \cup DisplayedCharacterIds :
          handleItemClick(id, type)
    \/ \E slotIndex \in DOMAIN slots : handleSlotClick(slotIndex)

\* C24: the tree exercise of a well-formed payload has no dead end: in
\* every state with success false a click is possible that sets success or
\* brings the tree nearer to it, so that finitely many clicks reach success.
C24_NoDeadEnd ==
    (TreeShown /\ ~treeSuccess /\ WellFormed(exerciseData)) =>
        ENABLED (TreeClick
                   /\ (treeSuccess' \/ DistanceToSuccess' < DistanceToSuccess))

\* A well-formed payload's tree of three steps, completely filled but
\* incorrect.
C24_Witness ==
    /\ TreeShown /\ ~treeSuccess /\ WellFormed(exerciseData)
    /\ Len(slots) = 6
    /\ \A i \in DOMAIN slots : slots[i].filledWithId # null
    /\ mistakes = 1

\* C25: the tree layout is defined for every evolutionOrder length, the
\* empty one included: neither the interactive tree nor the teacher's trees
\* throw while they are rendered.
C25_LayoutDefined == ~crashed

\* ATTR_W / 2, ATTR_H / 2 and TAXON_W / 2
HalfAttrW == Div(Num(ATTR_W), Num(2))

HalfAttrH == Div(Num(ATTR_H), Num(2))

HalfTaxonW == Div(Num(TAXON_W), Num(2))

\* The centre of an attribute slot, and the horizontal centre of a taxon
\* slot.
AttrCentre(slot) == [x |-> Add(slot.x, HalfAttrW), y |-> Add(slot.y, HalfAttrH)]

TaxonCentreX(slot) == Add(slot.x, HalfTaxonW)

\* What getGeometry computes for the step of a slot of the tree shown.
GeometryOf(slot) == Geometry[Len(exerciseData.evolutionOrder)][slot.id[2]]

\* The doubles a and b differ by less than 2^-30.
Near(a, b) ==
    LET diff == Sub(a, b)
    IN  diff.m = <<>> \/ BitLen(diff.m) + diff.e <= -30

\* C26 as stated: the centre of every attribute slot is the midpoint of its
\* segment, and the horizontal centre of every taxon slot is the
\* taxonTargetX of its segment.
C26_CoordinatesEqual ==
    TreeShown =>
       \A i \in DOMAIN slots :
          /\ slots[i].type = "attribute" =>
                AttrCentre(slots[i]) = GeometryOf(slots[i]).tick
          /\ slots[i].type = "taxon" =>
                TaxonCentreX(slots[i]) = GeometryOf(slots[i]).segment.taxonTargetX

\* C26, amended: the two coordinates of the centre of every attribute slot
\* are within 2^-30 of those of the midpoint of its segment, and equal to
\* them for evolutionOrder lengths 1, 2 and 4; the horizontal centre of
\* every taxon slot is equal to the taxonTargetX of its segment.
C26_CoordinatesAgree ==
    TreeShown =>
       \A i \in DOMAIN slots :
          LET centre == AttrCentre(slots[i])
              tick == GeometryOf(slots[i]).tick
          IN  /\ slots[i].type = "attribute" =>
                    /\ centre = tick \/ (Near(centre.x, tick.x)
                                           /\ Near(centre.y, tick.y))
                    /\ Len(exerciseData.evolutionOrder) \in {1, 2, 4} =>
                          centre = tick
              /\ slots[i].type = "taxon" =>
                    TaxonCentreX(slots[i])
                       = GeometryOf(slots[i]).segment.taxonTargetX

\* A tree of three steps, solved, whose slot attr-0 has a centre that is
\* not the midpoint of segment 0, and a tree of four steps.
C26_Witness ==
    /\ TreeShown /\ treeSuccess
    /\ Len(exerciseData.evolutionOrder) = 3
    /\ \E i \in DOMAIN slots :
          /\ slots[i].id = <<"attr", 0>>
          /\ AttrCentre(slots[i]) # GeometryOf(slots[i]).tick

\* C27: the error message reflects the latest start attempt: every
\* successful exercise start, by the generation or by the demo, leaves
\* error null, so that no screen after it shows the message of an earlier
\* failure.
C27_ErrorReflectsLatestStart ==
    [][(state = "setup" /\ state' = "info") => error' = null]_vars

\* C28: in every reachable state the screen is setup, info, matrix or tree;
\* exerciseData is not null on the info, matrix and tree screens and, once
\* set, never becomes null again; and the teacher zone can be opened, and is
\* opened, only when exerciseData is not null and the screen is not setup.
C28_AppStates ==
    /\ [](state \in {"setup", "info", "matrix", "tree"})
    /\ [](state \in {"info", "matrix", "tree"} => exerciseData # NoExercise)
    /\ [][exerciseData # NoExercise => exerciseData' # NoExercise]_vars
    /\ [](ENABLED OpenTeacherZone =>
             exerciseData # NoExercise /\ state # "setup")
    /\ [][(~showTeacherZone /\ showTeacherZone') =>
             /\ exerciseData # NoExercise /\ state # "setup"
             /\ state' = state /\ exerciseData' = exerciseData]_vars
    /\ [](showTeacherZone => exerciseData # NoExercise /\ state # "setup")

\* Back on the setup screen with the exercise kept and a new generation
\* under way: the teacher zone cannot be opened.
C28_Witness ==
    /\ state = "setup" /\ exerciseData # NoExercise /\ loading
    /\ ~showTeacherZone /\ ~ENABLED OpenTeacherZone
    /\ exerciseData.evolutionOrder # <<>>

====
